---- MODULE Spec2Model ----
(***************************************************************************)
(* Model of src/mobius_pool_integration.py: MobiusPool, the off-chain      *)
(* replica of the Mobius swap-pricing math.                                *)
(*                                                                         *)
(* Numbers.  The program computes with decimal.Decimal under               *)
(* getcontext().prec = 28 and the canonical scale WAD = 10^18.  TLC's      *)
(* integers are 32 bits wide, so the model keeps the arithmetic of the     *)
(* program (every operation is the exact result rounded half-even to Prec  *)
(* significant digits) and scales the two sizes down: Prec significant     *)
(* digits instead of 28 and WadDecimals fraction digits instead of 18.     *)
(* A Decimal is a record [m |-> coefficient, e |-> exponent] of value      *)
(* m * 10^e, kept normalised (no trailing zero in m, and 0 is [0, 0]), so  *)
(* that equality of records is numeric equality, as Decimal's == is.       *)
(***************************************************************************)
EXTENDS Integers, Sequences, FiniteSets, TLC

\* Significant digits of the decimal context (28 in the program).
Prec == 3

\* Fraction digits of the canonical scale (18 in the program).
WadDecimals == 2

----------------------------------------------------------------------------
(* decimal.Decimal *)

\* 10 ** k for the exponents the model needs.
PowersOfTen == <<1, 10, 100, 1000, 10000, 100000, 1000000, 10000000, 100000000,
                 1000000000>>

Pow10(k) == PowersOfTen[k + 1]

\* The number of decimal digits of n >= 0.
NumDigits(n) ==
    IF n < 10 THEN 1 ELSE IF n < 100 THEN 2 ELSE IF n < 1000 THEN 3
    ELSE IF n < 10000 THEN 4 ELSE IF n < 100000 THEN 5 ELSE IF n < 1000000 THEN 6
    ELSE IF n < 10000000 THEN 7 ELSE IF n < 100000000 THEN 8
    ELSE IF n < 1000000000 THEN 9 ELSE 10

Abs(n) == IF n < 0 THEN -n ELSE n

Sign(n) == IF n < 0 THEN -1 ELSE 1

Max(a, b) == IF a >= b THEN a ELSE b

Min(a, b) == IF a <= b THEN a ELSE b

\* The Decimal of value m * 10^e, normalised.
RECURSIVE Dec(_, _)
Dec(m, e) ==
    IF m = 0 THEN [m |-> 0, e |-> 0]
    ELSE IF m % 10 = 0 THEN Dec(m \div 10, e + 1)
    ELSE [m |-> m, e |-> e]

\* Decimal(str(n)) of a Python int: exact, whatever the context precision.
DecOfInt(n) == Dec(n, 0)

DZero == Dec(0, 0)

\* The context's rounding (ROUND_HALF_EVEN) of sign * mag * 10^e to p
\* significant digits: the last k digits are dropped.
RoundTo(sign, mag, e, p) ==
    LET Rounded(k, q, r, half) ==
            Dec(sign * (IF r > half \/ (r = half /\ q % 2 = 1) THEN q + 1 ELSE q),
                e + k)
        Drop(k) == Rounded(k, mag \div Pow10(k), mag % Pow10(k), 5 * Pow10(k - 1))
    IN IF NumDigits(mag) <= p THEN Dec(sign * mag, e)
       ELSE Drop(NumDigits(mag) - p)

\* The same rounding of the signed integer n * 10^e.
RoundInt(n, e, p) == RoundTo(Sign(n), Abs(n), e, p)

DNeg(a) == [m |-> -a.m, e |-> a.e]

\* Decimal.__add__: the operands are aligned as _normalize does (an operand
\* too small to reach the rounding digit is replaced by a 1 just below it),
\* added exactly and rounded to the context precision.
DAddP(a, b, p) ==
    LET Sum(tmp, om, oe) == RoundInt(tmp.m * Pow10(tmp.e - oe) + om, oe, p)
        Align(tmp, other, exp) ==
            IF NumDigits(Abs(other.m)) + other.e - 1 < exp
            THEN Sum(tmp, Sign(other.m), exp)
            ELSE Sum(tmp, other.m, other.e)
        Order(tmp, other) ==
            Align(tmp, other, tmp.e + Min(-1, NumDigits(Abs(tmp.m)) - p - 2))
    IN IF a.m = 0 THEN RoundInt(b.m, b.e, p)
       ELSE IF b.m = 0 THEN RoundInt(a.m, a.e, p)
       ELSE IF a.e < b.e THEN Order(b, a) ELSE Order(a, b)

DAdd(a, b) == DAddP(a, b, Prec)

DSub(a, b) == DAdd(a, DNeg(b))

\* Decimal comparisons are exact; rounding a difference keeps its sign.
DLt(a, b) == DSub(a, b).m < 0

DLe(a, b) == DSub(a, b).m <= 0

\* The exact product of two coefficients below 10^8, as <<H, L>> with value
\* H * 10^8 + L and L < 10^8 (the product itself may not fit an integer of
\* the model checker).
WideProduct(x, y) ==
    LET xh    == x \div 10000
        xl    == x % 10000
        yh    == y \div 10000
        yl    == y % 10000
        cross == xh * yl + xl * yh
        lo    == (cross % 10000) * 10000 + xl * yl
    IN <<xh * yh + cross \div 10000 + lo \div 100000000, lo % 100000000>>

\* Decimal.__mul__ under a context of precision p: the exact product
\* rounded half-even to p significant digits.
DMulP(a, b, p) ==
    LET Rounded(sign, e, H, L, k) ==
            IF H = 0 THEN RoundTo(sign, L, e, p)
            ELSE IF k <= 0 THEN Dec(sign * (H * 100000000 + L), e)
            ELSE IF k <= 8
            THEN LET q    == H * Pow10(8 - k) + L \div Pow10(k)
                     r    == L % Pow10(k)
                     half == 5 * Pow10(k - 1)
                     up   == r > half \/ (r = half /\ q % 2 = 1)
                 IN Dec(sign * (IF up THEN q + 1 ELSE q), e + k)
            ELSE LET q    == H \div Pow10(k - 8)
                     rH   == H % Pow10(k - 8)
                     half == 5 * Pow10(k - 9)
                     up   == rH > half \/ (rH = half /\ (L > 0 \/ q % 2 = 1))
                 IN Dec(sign * (IF up THEN q + 1 ELSE q), e + k)
        Product(w) ==
            Rounded(Sign(a.m) * Sign(b.m), a.e + b.e, w[1], w[2],
                    NumDigits(w[1]) + 8 - p)
    IN Product(WideProduct(Abs(a.m), Abs(b.m)))

DMul(a, b) == DMulP(a, b, Prec)

\* Decimal.__pow__ with a positive int exponent: square-and-multiply from
\* the exponent's top bit, every product rounded to the working precision,
\* which is the context precision + the exponent's digits + 2; the result
\* is then rounded to the context precision.
RECURSIVE PowWork(_, _, _)
PowWork(base, n, p) ==
    LET Step(sq) == IF n % 2 = 1 THEN DMulP(sq, base, p) ELSE sq
        Square(h) == Step(DMulP(h, h, p))
    IN IF n = 1 THEN base ELSE Square(PowWork(base, n \div 2, p))

DPow(base, n) ==
    LET Final(r) == RoundInt(r.m, r.e, Prec)
    IN Final(PowWork(base, n, Prec + NumDigits(n) + 2))

\* Decimal.__truediv__ for a divisor that is not zero: the quotient is
\* carried to more than Prec digits, a remainder is kept as a trailing 1
\* below the rounding digit, and the result is rounded.
DDiv(a, b) ==
    LET Quotient(sign, num, bm, e) ==
            IF num % bm = 0 THEN RoundTo(sign, num \div bm, e, Prec)
            ELSE RoundTo(sign, 10 * (num \div bm) + 1, e - 1, Prec)
        Shift(am, bm, k) ==
            Quotient(Sign(a.m) * Sign(b.m), am * Pow10(k), bm, a.e - b.e - k)
    IN IF a.m = 0 THEN DZero
       ELSE Shift(Abs(a.m), Abs(b.m),
                  Max(0, Prec + 1 + NumDigits(Abs(b.m)) - NumDigits(Abs(a.m))))

\* int(x) of a Decimal: truncation toward zero.  The int is kept as a
\* Decimal of integral value, since a Python int has no width.
DInt(a) ==
    IF a.e >= 0 THEN a
    ELSE IF -a.e >= NumDigits(Abs(a.m)) THEN DZero
    ELSE Dec(Sign(a.m) * (Abs(a.m) \div Pow10(-a.e)), 0)

----------------------------------------------------------------------------
(* Constants of the module *)

WAD == Dec(Pow10(WadDecimals), 0)

UNIT == WAD

\* Decimal('5000000000000000000'), which is 5 * WAD.
FiveWad == Dec(5 * Pow10(WadDecimals), 0)

\* Optional[...]: None is the empty sequence, a value v is <<v>>.
None == <<>>

Some(v) == <<v>>

\* Outcomes: a raised ValueError is named by the error kind of its message.
Raise(kind) == [err |-> kind]

Return(v) == [err |-> "none", val |-> v]

Failed(r) == r.err # "none"

----------------------------------------------------------------------------
(* Mathematical functions from Core.sol.  A value the code binds to a local
   name and reads more than once is bound here as the parameter of a local
   operator and computed where that operator is applied. *)

\* _to_wad: x is an int in d decimals.
ToWad(x, d) ==
    LET x_decimal == DecOfInt(x) IN
    IF d < WadDecimals THEN DMul(x_decimal, DecOfInt(Pow10(WadDecimals - d)))
    ELSE IF d > WadDecimals THEN DDiv(x_decimal, DecOfInt(Pow10(d - WadDecimals)))
    ELSE x_decimal

\* _from_wad: x is a Decimal in WAD.
FromWad(x, d) ==
    IF d < WadDecimals THEN DDiv(x, DecOfInt(Pow10(WadDecimals - d)))
    ELSE IF d > WadDecimals THEN DMul(x, DecOfInt(Pow10(d - WadDecimals)))
    ELSE x

\* AssetState.coverage_ratio
AssetCoverageRatio(asset) ==
    IF asset.liability = DZero THEN Raise("ZeroLiability")
    ELSE Return(DDiv(asset.cash, asset.liability))

\* _coverage_ratio
CoverageRatio(cash_wad, liability_wad) ==
    IF liability_wad = DZero THEN Raise("ZeroLiability")
    ELSE Return(DDiv(cash_wad, liability_wad))

\* _solvency_curve_integral
SolvencyCurveIntegral(r_thres_wad, r_wad) ==
    IF r_thres_wad = DZero THEN Raise("ZeroThreshold")
    ELSE IF r_wad = DZero THEN Raise("ZeroRatio")
    ELSE IF DLe(r_wad, r_thres_wad)
    THEN Return(DSub(DAdd(DDiv(DSub(UNIT, r_thres_wad), FiveWad), r_thres_wad), r_wad))
    ELSE IF DLt(r_wad, UNIT)
    THEN Return(DDiv(DPow(DSub(UNIT, r_wad), 5),
                     DMul(FiveWad, DPow(DSub(UNIT, r_thres_wad), 4))))
    ELSE Return(DZero)

\* _solvency_score that takes an asset without liability as one whose
\* coverage does not change.
SolvencyScore_ZeroLiabilityScoresZero(r_thres_wad, cash_wad, liability_wad, cash_change_wad, add_cash) ==
    Return(DZero)

\* _solvency_score
SolvencyScore(r_thres_wad, cash_wad, liability_wad, cash_change_wad, add_cash) ==
    LET Score(cov_before, cov_after, solvency_integral_before, solvency_integral_after) ==
            IF Failed(solvency_integral_before) THEN solvency_integral_before
            ELSE IF Failed(solvency_integral_after) THEN solvency_integral_after
            ELSE IF DLt(cov_after, cov_before)
            THEN Return(DDiv(DSub(solvency_integral_after.val,
                                  solvency_integral_before.val),
                             DSub(cov_before, cov_after)))
            ELSE Return(DDiv(DSub(solvency_integral_before.val,
                                  solvency_integral_after.val),
                             DSub(cov_after, cov_before)))
        Coverage(cov_before, cov_after) ==
            IF cov_before = cov_after THEN Return(DZero)
            ELSE Score(cov_before, cov_after,
                       SolvencyCurveIntegral(r_thres_wad, DMul(cov_before, UNIT)),
                       SolvencyCurveIntegral(r_thres_wad, DMul(cov_after, UNIT)))
    IN IF liability_wad = DZero THEN Raise("ZeroLiability")
       ELSE Coverage(DDiv(cash_wad, liability_wad),
                     IF add_cash
                     THEN DDiv(DAdd(cash_wad, cash_change_wad), liability_wad)
                     ELSE DDiv(DSub(cash_wad, cash_change_wad), liability_wad))

\* _compute_to_amount
ComputeToAmount(si_wad, sj_wad, from_amount_wad) ==
    DDiv(DMul(from_amount_wad, DSub(DAdd(UNIT, si_wad), sj_wad)), UNIT)

\* _haircut
Haircut(amount_wad, rate_wad) == DDiv(DMul(amount_wad, rate_wad), UNIT)

\* _convert_token_amount that checks only the destination's price for zero.
ConvertTokenAmount_ZeroFromPrice(from_amount_wad, from_price_wad, to_price_wad) ==
    IF to_price_wad = DZero THEN Raise("ZeroPrice")
    ELSE Return(DDiv(DMul(from_amount_wad, from_price_wad), to_price_wad))

\* _convert_token_amount
ConvertTokenAmount(from_amount_wad, from_price_wad, to_price_wad) ==
    IF to_price_wad = DZero \/ from_price_wad = DZero THEN Raise("ZeroPrice")
    ELSE Return(DDiv(DMul(from_amount_wad, from_price_wad), to_price_wad))

\* _quote_ideal_to_amount
QuoteIdealToAmount(from_asset, to_asset, from_amount_wad) ==
    LET from_price == from_asset.price_wad
        to_price   == to_asset.price_wad
    IN IF to_price = None \/ from_price = None THEN Raise("PriceNotSet")
       ELSE ConvertTokenAmount(from_amount_wad, from_price[1], to_price[1])

\* ideal_to_amount of _quote_swap_internal and of validate_swap: the amount
\* itself in a stable pool, the price conversion in a variant pool.
IdealToAmount(cfg, from_asset, to_asset, from_amount_wad) ==
    IF cfg.pool_type = "stable" THEN Return(from_amount_wad)
    ELSE QuoteIdealToAmount(from_asset, to_asset, from_amount_wad)

----------------------------------------------------------------------------
(* MobiusPool: quotes *)

\* The tail of _quote_swap_internal: the amount after slippage, the haircut
\* on it and the pair returned.
QuoteAfterSlippage(cfg, to_amount) ==
    LET Result(haircut) ==
            Return([actual_to_amount |-> DSub(to_amount, haircut),
                    haircut |-> haircut])
    IN Result(Haircut(to_amount, cfg.haircut_rate))

\* _quote_swap_internal with the cash check made after the solvency scores.
QuoteSwapInternal_LateCashCheck(cfg, from_asset, to_asset, from_amount_wad) ==
    LET Scored(ideal_to_amount, solvency_from, solvency_to) ==
            IF Failed(solvency_from) THEN solvency_from
            ELSE IF Failed(solvency_to) THEN solvency_to
            ELSE IF DLt(to_asset.cash, ideal_to_amount.val)
            THEN Raise("InsufficientCash")
            ELSE QuoteAfterSlippage(cfg,
                     ComputeToAmount(DMul(solvency_from.val, UNIT),
                                     DMul(solvency_to.val, UNIT),
                                     ideal_to_amount.val))
        Ideal(ideal_to_amount) ==
            IF Failed(ideal_to_amount) THEN ideal_to_amount
            ELSE Scored(ideal_to_amount,
                        SolvencyScore(cfg.r_threshold, from_asset.cash,
                                      from_asset.liability, from_amount_wad, TRUE),
                        SolvencyScore(cfg.r_threshold, to_asset.cash,
                                      to_asset.liability, ideal_to_amount.val, FALSE))
    IN Ideal(IdealToAmount(cfg, from_asset, to_asset, from_amount_wad))

\* _quote_swap_internal: (actual_to_amount, haircut) in WAD, or the error.
QuoteSwapInternal(cfg, from_asset, to_asset, from_amount_wad) ==
    LET Scored(ideal_to_amount, solvency_from, solvency_to) ==
            IF Failed(solvency_from) THEN solvency_from
            ELSE IF Failed(solvency_to) THEN solvency_to
            ELSE QuoteAfterSlippage(cfg,
                     ComputeToAmount(DMul(solvency_from.val, UNIT),
                                     DMul(solvency_to.val, UNIT),
                                     ideal_to_amount.val))
        Ideal(ideal_to_amount) ==
            IF Failed(ideal_to_amount) THEN ideal_to_amount
            ELSE IF DLt(to_asset.cash, ideal_to_amount.val)
            THEN Raise("InsufficientCash")
            ELSE Scored(ideal_to_amount,
                        SolvencyScore(cfg.r_threshold, from_asset.cash,
                                      from_asset.liability, from_amount_wad, TRUE),
                        SolvencyScore(cfg.r_threshold, to_asset.cash,
                                      to_asset.liability, ideal_to_amount.val, FALSE))
    IN Ideal(IdealToAmount(cfg, from_asset, to_asset, from_amount_wad))

\* quote_swap after its two checks: conversion to WAD, the quote in WAD and
\* the conversion back to the destination's decimals.
QuoteSwapConverted(cfg, from_asset, to_asset, from_amount) ==
    LET Converted(q) ==
            IF Failed(q) THEN q
            ELSE Return([to_amount |-> DInt(FromWad(q.val.actual_to_amount,
                                                    to_asset.underlying_token_decimals)),
                         haircut   |-> DInt(FromWad(q.val.haircut,
                                                    to_asset.underlying_token_decimals))])
    IN Converted(QuoteSwapInternal(cfg, from_asset, to_asset,
                     ToWad(from_amount, from_asset.underlying_token_decimals)))

\* quote_swap without the aggregate-account check.
QuoteSwap_NoAccountGate(a, cfg, from_token, to_token, from_amount) ==
    IF from_token \notin DOMAIN a \/ to_token \notin DOMAIN a
    THEN Raise("AssetNotFound")
    ELSE QuoteSwapConverted(cfg, a[from_token], a[to_token], from_amount)

\* quote_swap on the asset map a: (to_amount, haircut) in to_token decimals.
QuoteSwap(a, cfg, from_token, to_token, from_amount) ==
    IF from_token \notin DOMAIN a \/ to_token \notin DOMAIN a
    THEN Raise("AssetNotFound")
    ELSE IF a[from_token].aggregate_account # a[to_token].aggregate_account
    THEN Raise("AggregateAccountMismatch")
    ELSE QuoteSwapConverted(cfg, a[from_token], a[to_token], from_amount)

\* validate_swap's checks after the amount check: the ideal amount against
\* the destination's cash.
ValidateCash(cfg, from_asset, to_asset, from_amount) ==
    LET Checked(ideal_to_amount) ==
            IF Failed(ideal_to_amount) THEN ideal_to_amount
            ELSE IF DLt(to_asset.cash, ideal_to_amount.val) THEN Return(FALSE)
            ELSE Return(TRUE)
        Ideal(from_amount_wad) ==
            Checked(IdealToAmount(cfg, from_asset, to_asset, from_amount_wad))
    IN Ideal(ToWad(from_amount, from_asset.underlying_token_decimals))

\* The try block with "from_amount < 0" for "from_amount <= 0".
ValidateSwapTry_ZeroAmountPasses(a, cfg, from_token, to_token, from_amount) ==
    IF from_token \notin DOMAIN a \/ to_token \notin DOMAIN a THEN Return(FALSE)
    ELSE IF a[from_token].aggregate_account # a[to_token].aggregate_account
    THEN Return(FALSE)
    ELSE IF from_amount < 0 THEN Return(FALSE)
    ELSE ValidateCash(cfg, a[from_token], a[to_token], from_amount)

\* The body of validate_swap's try block.
ValidateSwapTry(a, cfg, from_token, to_token, from_amount) ==
    IF from_token \notin DOMAIN a \/ to_token \notin DOMAIN a THEN Return(FALSE)
    ELSE IF a[from_token].aggregate_account # a[to_token].aggregate_account
    THEN Return(FALSE)
    ELSE IF from_amount <= 0 THEN Return(FALSE)
    ELSE ValidateCash(cfg, a[from_token], a[to_token], from_amount)

\* validate_swap: the try block under "except Exception: return False".
ValidateSwap(a, cfg, from_token, to_token, from_amount) ==
    LET Caught(r) == IF Failed(r) THEN Return(FALSE) ELSE r
    IN Caught(ValidateSwapTry(a, cfg, from_token, to_token, from_amount))

\* get_asset_state: self.assets.get(token_address)
GetAssetState(a, token_address) ==
    IF token_address \in DOMAIN a THEN Some(a[token_address]) ELSE None

\* is_stable_asset
IsStableAsset(a, token_address) ==
    token_address \in DOMAIN a /\ a[token_address].price_wad = None

----------------------------------------------------------------------------
(* MobiusPool: state-sync writes *)

\* The AssetState that update_asset_state stores for its arguments.
UpdatedEntry(token_address, cash, liability, underlying_token_decimals, aggregate_account, values_in_wad, price_wad) ==
    [token_address |-> token_address,
     cash |-> IF values_in_wad THEN DecOfInt(cash)
              ELSE ToWad(cash, underlying_token_decimals),
     liability |-> IF values_in_wad THEN DecOfInt(liability)
                   ELSE ToWad(liability, underlying_token_decimals),
     underlying_token_decimals |-> underlying_token_decimals,
     aggregate_account |-> aggregate_account,
     price_wad |-> IF price_wad # None THEN Some(DecOfInt(price_wad[1])) ELSE None]

\* update_asset_state that keeps the price of the entry it replaces when the
\* call supplies none.
UpdateAssetState_KeepsPrice(a, token_address, cash, liability, underlying_token_decimals, aggregate_account, values_in_wad, price_wad) ==
    (token_address :>
        UpdatedEntry(token_address, cash, liability, underlying_token_decimals,
                     aggregate_account, values_in_wad,
                     IF price_wad = None /\ token_address \in DOMAIN a
                     THEN IF a[token_address].price_wad = None THEN None
                          ELSE Some(a[token_address].price_wad[1].m
                                    * Pow10(a[token_address].price_wad[1].e))
                     ELSE price_wad)) @@ a

\* update_asset_state: the asset map after the call.
UpdateAssetState(a, token_address, cash, liability, underlying_token_decimals, aggregate_account, values_in_wad, price_wad) ==
    (token_address :> UpdatedEntry(token_address, cash, liability,
                                   underlying_token_decimals, aggregate_account,
                                   values_in_wad, price_wad)) @@ a

\* update_asset_price that sets the price on a copy of the entry and leaves
\* the pool's entry as it was.
UpdateAssetPrice_OnCopy(a, token_address, price_wad) ==
    IF token_address \notin DOMAIN a THEN Raise("AssetNotFound") ELSE Return(a)

\* update_asset_price: the error, or the asset map after the call.
UpdateAssetPrice(a, token_address, price_wad) ==
    IF token_address \notin DOMAIN a THEN Raise("AssetNotFound")
    ELSE Return([a EXCEPT ![token_address].price_wad = Some(DecOfInt(price_wad))])

----------------------------------------------------------------------------
(* The pool as a state machine: one action per public method *)

VARIABLES
    assets,           \* self.assets: token_address -> AssetState
    asset_addresses,  \* self.asset_addresses: token_address -> asset_address
    config,           \* self.config: PoolConfig
    last,             \* the last call: its name, arguments and outcome
    inflight          \* a quote_swap call running beside the writes (SpecConc)

vars == <<assets, asset_addresses, config, last, inflight>>

\* No quote_swap call is running.
Idle == [pc |-> "idle"]

\* One WAD as a Python int.
WadInt == Pow10(WadDecimals)

Tokens == {"WETH", "cmETH"}

AssetContracts == {"0x6d01"}

AggregateAccounts == {"variant", "stable"}

\* Arguments of update_asset_state (cash, liability, decimals, aggregate
\* account, values_in_wad, price_wad), one ledger reading each: a healthy
\* asset synced in WAD with a price, without one, and in the other aggregate
\* account; one synced in native units of fewer and of more decimals than
\* WAD; one with no liability and one with no cash.
SyncArgs(cash, liability, decimals, account, in_wad, price) ==
    [cash |-> cash, liability |-> liability, decimals |-> decimals,
     account |-> account, in_wad |-> in_wad, price |-> price]

SyncInputs ==
    {SyncArgs(WadInt, WadInt, WadDecimals, "variant", TRUE, Some(WadInt)),
     SyncArgs(WadInt, WadInt, WadDecimals, "variant", TRUE, None),
     SyncArgs(WadInt, WadInt, WadDecimals, "stable", TRUE, None),
     SyncArgs(WadInt \div 10, WadInt \div 10, WadDecimals - 1, "variant", FALSE,
              None),
     SyncArgs(10 * WadInt, 10 * WadInt, WadDecimals + 1, "variant", FALSE,
              Some(WadInt)),
     SyncArgs(WadInt, 0, WadDecimals, "variant", TRUE, Some(WadInt)),
     SyncArgs(0, WadInt, WadDecimals, "variant", TRUE, Some(WadInt))}

\* price_wad arguments of update_asset_price: 0 and 2.0
PriceInputs == {0, 2 * WadInt}

\* The (from_token, to_token) arguments of a swap: two different tokens.
SwapPairs == {p \in Tokens \X Tokens : p[1] # p[2]}

\* from_amount arguments: -1.0, 0, 0.5, 0.9 and 2.0 in WAD
AmountInputs == {-WadInt, 0, WadInt \div 2, 9 * (WadInt \div 10), 2 * WadInt}

\* create_mantle_mainnet_stable_pool / create_mantle_mainnet_variant_pool,
\* with r_threshold 0.23 / 0.20 and a haircut rate of 0.05.
PoolConfigs ==
    {[r_threshold |-> Dec(23, WadDecimals - 2), haircut_rate |-> Dec(5, WadDecimals - 2),
      retention_ratio |-> Dec(2, WadDecimals - 1), pool_type |-> "stable"],
     [r_threshold |-> Dec(2, WadDecimals - 1), haircut_rate |-> Dec(5, WadDecimals - 2),
      retention_ratio |-> Dec(2, WadDecimals - 1), pool_type |-> "variant"]}

\* MobiusPool.__init__
Init ==
    /\ assets = <<>>
    /\ asset_addresses = <<>>
    /\ config \in PoolConfigs
    /\ last = [op |-> "init", args |-> <<>>, res |-> Return(None)]
    /\ inflight = Idle

UpdateAssetStateCall ==
    \E token \in Tokens, asset \in AssetContracts, s \in SyncInputs :
        /\ assets' = UpdateAssetState(assets, token, s.cash, s.liability, s.decimals,
                                      s.account, s.in_wad, s.price)
        /\ asset_addresses' = (token :> asset) @@ asset_addresses
        /\ last' = [op |-> "update_asset_state", args |-> <<token, asset, s>>,
                    res |-> Return(None)]
        /\ UNCHANGED <<config, inflight>>

UpdateAssetPriceCall ==
    \E token \in Tokens, price \in PriceInputs :
        LET r == UpdateAssetPrice(assets, token, price) IN
        /\ assets' = IF Failed(r) THEN assets ELSE r.val
        /\ last' = [op |-> "update_asset_price", args |-> <<token, price>>,
                    res |-> IF Failed(r) THEN r ELSE Return(None)]
        /\ UNCHANGED <<asset_addresses, config, inflight>>

\* get_asset_state written with self.assets.pop for self.assets.get.
GetAssetStateCall_Pop ==
    \E token \in Tokens :
        /\ last' = [op |-> "get_asset_state", args |-> <<token>>,
                    res |-> Return(GetAssetState(assets, token))]
        /\ assets' = [u \in DOMAIN assets \ {token} |-> assets[u]]
        /\ UNCHANGED <<asset_addresses, config, inflight>>

GetAssetStateCall ==
    \E token \in Tokens :
        /\ last' = [op |-> "get_asset_state", args |-> <<token>>,
                    res |-> Return(GetAssetState(assets, token))]
        /\ UNCHANGED <<assets, asset_addresses, config, inflight>>

QuoteSwapCall ==
    \E pair \in SwapPairs, from_amount \in AmountInputs :
        /\ last' = [op |-> "quote_swap", args |-> <<pair[1], pair[2], from_amount>>,
                    res |-> QuoteSwap(assets, config, pair[1], pair[2], from_amount)]
        /\ UNCHANGED <<assets, asset_addresses, config, inflight>>

ValidateSwapCall ==
    \E pair \in SwapPairs, from_amount \in AmountInputs :
        /\ last' = [op |-> "validate_swap", args |-> <<pair[1], pair[2], from_amount>>,
                    res |-> ValidateSwap(assets, config, pair[1], pair[2], from_amount)]
        /\ UNCHANGED <<assets, asset_addresses, config, inflight>>

Next ==
    \/ UpdateAssetStateCall
    \/ UpdateAssetPriceCall
    \/ GetAssetStateCall
    \/ QuoteSwapCall
    \/ ValidateSwapCall

Spec == Init /\ [][Next]_vars

----------------------------------------------------------------------------
(* quote_swap as a process beside the state-sync writes.  The class takes no
   lock, so a write can run between any two reads of quote_swap.  quote_swap
   holds references to the two AssetState objects it fetched:
   update_asset_state stores a new object under the token and leaves a held
   one as it was, update_asset_price assigns price_wad of the stored object
   and is seen through a reference to it. *)

\* Writes that may run while one quote_swap call is in progress.
MaxWritesInFlight == 2

\* Ledger readings synced while quotes run: cash 1.0 and 2.0 over a liability
\* of 1.0, both in WAD with a price of 1.0.
ConcSyncInputs ==
    {SyncArgs(WadInt, WadInt, WadDecimals, "variant", TRUE, Some(WadInt)),
     SyncArgs(2 * WadInt, WadInt, WadDecimals, "variant", TRUE, Some(WadInt))}

\* from_amount of the quotes that run beside writes: 0.5 in WAD
ConcAmountInputs == {WadInt \div 2}

\* A write is scheduled when no quote is running, or while one runs and fewer
\* than MaxWritesInFlight writes have run beside it.
WriteEnabled ==
    IF inflight.pc \in {"idle", "done"} THEN TRUE
    ELSE inflight.writes < MaxWritesInFlight

\* The running call's record after a write by update_asset_state(token, ...):
\* a held reference to the replaced object no longer names the pool's entry.
AfterStateWrite(token, new_assets) ==
    IF inflight.pc \in {"idle", "done"} THEN inflight
    ELSE [inflight EXCEPT
            !.from_live = @ /\ inflight.from_token # token,
            !.to_live = @ /\ inflight.to_token # token,
            !.seen = @ \cup {new_assets},
            !.writes = @ + 1]

\* The running call's record after update_asset_price(token, price) assigned
\* price_wad of the pool's entry: a held reference to that entry shows it.
AfterPriceWrite(token, price, new_assets) ==
    IF inflight.pc \in {"idle", "done"} THEN inflight
    ELSE [inflight EXCEPT
            !.from_asset = IF inflight.from_live /\ inflight.from_token = token
                              /\ @ # None
                           THEN Some([@[1] EXCEPT !.price_wad = Some(DecOfInt(price))])
                           ELSE @,
            !.to_asset = IF inflight.to_live /\ inflight.to_token = token
                            /\ @ # None
                         THEN Some([@[1] EXCEPT !.price_wad = Some(DecOfInt(price))])
                         ELSE @,
            !.seen = @ \cup {new_assets},
            !.writes = @ + 1]

ConcUpdateAssetState ==
    \E token \in Tokens, asset \in AssetContracts, s \in ConcSyncInputs :
        LET new_assets == UpdateAssetState(assets, token, s.cash, s.liability, s.decimals,
                                           s.account, s.in_wad, s.price)
        IN /\ WriteEnabled
           /\ assets' = new_assets
           /\ asset_addresses' = (token :> asset) @@ asset_addresses
           /\ inflight' = AfterStateWrite(token, new_assets)
           /\ UNCHANGED <<config, last>>

ConcUpdateAssetPrice ==
    \E token \in Tokens, price \in PriceInputs :
        LET r == UpdateAssetPrice(assets, token, price) IN
        /\ WriteEnabled
        /\ ~Failed(r)
        /\ assets' = r.val
        /\ inflight' = AfterPriceWrite(token, price, r.val)
        /\ UNCHANGED <<asset_addresses, config, last>>

\* quote_swap, line 125: from_asset = self.assets.get(from_token)
QuoteGetFromAsset ==
    \E pair \in SwapPairs, from_amount \in ConcAmountInputs :
        /\ inflight.pc \in {"idle", "done"}
        /\ inflight' = [pc |-> "get_to_asset",
                        from_token |-> pair[1], to_token |-> pair[2],
                        from_amount |-> from_amount,
                        from_asset |-> GetAssetState(assets, pair[1]),
                        to_asset |-> None,
                        from_live |-> TRUE, to_live |-> FALSE,
                        from_price |-> None,
                        seen |-> {assets}, writes |-> 0,
                        res |-> Return(None)]
        /\ UNCHANGED <<assets, asset_addresses, config, last>>

\* quote_swap, lines 126-132: to_asset = self.assets.get(to_token), then the
\* checks on the two objects held.
QuoteGetToAsset ==
    LET to_asset == GetAssetState(assets, inflight.to_token) IN
    /\ inflight.pc = "get_to_asset"
    /\ inflight' =
         IF inflight.from_asset = None \/ to_asset = None
         THEN [inflight EXCEPT !.pc = "done", !.res = Raise("AssetNotFound")]
         ELSE IF inflight.from_asset[1].aggregate_account # to_asset[1].aggregate_account
         THEN [inflight EXCEPT !.pc = "done", !.to_asset = to_asset,
                               !.res = Raise("AggregateAccountMismatch")]
         ELSE [inflight EXCEPT !.pc = IF config.pool_type = "variant"
                                      THEN "read_from_price" ELSE "compute",
                               !.to_asset = to_asset, !.to_live = TRUE]
    /\ UNCHANGED <<assets, asset_addresses, config, last>>

\* _quote_ideal_to_amount, line 192: from_price = from_asset.price_wad
QuoteReadFromPrice ==
    /\ inflight.pc = "read_from_price"
    /\ inflight' = [inflight EXCEPT !.pc = "compute",
                                    !.from_price = inflight.from_asset[1].price_wad]
    /\ UNCHANGED <<assets, asset_addresses, config, last>>

\* The rest of the call, from to_price = to_asset.price_wad (line 193) to the
\* return: the quote on the values now in hand.  from_asset and to_asset are
\* left holding the values the quote used.
QuoteCompute ==
    LET used_from == IF config.pool_type = "variant"
                     THEN [inflight.from_asset[1] EXCEPT !.price_wad = inflight.from_price]
                     ELSE inflight.from_asset[1]
        used_to == inflight.to_asset[1]
        held == (inflight.from_token :> used_from) @@ (inflight.to_token :> used_to)
    IN /\ inflight.pc = "compute"
       /\ inflight' = [inflight EXCEPT
                         !.pc = "done",
                         !.from_asset = Some(used_from),
                         !.res = QuoteSwap(held, config, inflight.from_token,
                                           inflight.to_token, inflight.from_amount)]
       /\ UNCHANGED <<assets, asset_addresses, config, last>>

ConcNext ==
    \/ ConcUpdateAssetState
    \/ ConcUpdateAssetPrice
    \/ QuoteGetFromAsset
    \/ QuoteGetToAsset
    \/ QuoteReadFromPrice
    \/ QuoteCompute

SpecConc == Init /\ [][ConcNext]_vars

----------------------------------------------------------------------------
(* _to_wad and _from_wad on their own: the round trip of a native amount *)

\* The largest native amount converted.
MaxNativeAmount == 60

\* The native precisions converted: below, at and above the canonical one.
NativeDecimals == (WadDecimals - 1) .. (WadDecimals + 2)

\* _to_wad(x, d)
ToWadCall ==
    \E x \in 0 .. MaxNativeAmount, d \in NativeDecimals :
        /\ last' = [op |-> "_to_wad", args |-> <<x, d>>, res |-> Return(ToWad(x, d))]
        /\ UNCHANGED <<assets, asset_addresses, config, inflight>>

\* _from_wad(w, d) on the value w that _to_wad(x, d) returned; x is kept in
\* the record of the call.
FromWadCall ==
    /\ last.op = "_to_wad"
    /\ last' = [op |-> "_from_wad", args |-> <<last.res.val, last.args[2]>>,
                res |-> Return(FromWad(last.res.val, last.args[2])),
                native |-> last.args[1]]
    /\ UNCHANGED <<assets, asset_addresses, config, inflight>>

RoundTripNext ==
    \/ ToWadCall
    \/ FromWadCall

SpecRoundTrip == Init /\ [][RoundTripNext]_vars

----------------------------------------------------------------------------
(* _solvency_curve_integral on its own *)

\* The coverage ratios integrated from, in WAD as Python ints: 0 to 1.5
RatioInputs == 0 .. (3 * WadInt) \div 2

\* _solvency_curve_integral(r_thres_wad, r_wad) for the thresholds of the
\* two pools.
SolvencyCurveIntegralCall ==
    \E cfg \in PoolConfigs, r \in RatioInputs :
        /\ last' = [op |-> "_solvency_curve_integral",
                    args |-> <<cfg.r_threshold, DecOfInt(r)>>,
                    res |-> SolvencyCurveIntegral(cfg.r_threshold, DecOfInt(r))]
        /\ UNCHANGED <<assets, asset_addresses, config, inflight>>

IntegralNext == SolvencyCurveIntegralCall

SpecIntegral == Init /\ [][IntegralNext]_vars

----------------------------------------------------------------------------
(* Properties *)

\* The last call was op(from_token, to_token, from_amount) on two tokens that
\* are both in the pool.
SwapOnPresent(op) ==
    /\ last.op = op
    /\ last.args[1] \in DOMAIN assets
    /\ last.args[2] \in DOMAIN assets

FromAsset == assets[last.args[1]]

ToAsset == assets[last.args[2]]

SameAccount == FromAsset.aggregate_account = ToAsset.aggregate_account

\* The ideal destination amount of the last swap call, where it is computable.
LastIdeal ==
    IF config.pool_type = "stable"
    THEN Return(ToWad(last.args[3], FromAsset.underlying_token_decimals))
    ELSE QuoteIdealToAmount(FromAsset, ToAsset,
                            ToWad(last.args[3], FromAsset.underlying_token_decimals))

\* C1: quote_swap never returns a negative net destination amount: a quote
\* whose net amount would be negative fails instead of being returned.  The
\* claim covers every from-amount; it is stated here for the positive ones,
\* so that a violation is a swap a caller can ask for.
C1_NetNeverNegative ==
    (last.op = "quote_swap" /\ last.args[3] > 0 /\ ~Failed(last.res))
    => last.res.val.to_amount.m >= 0

\* C2: validate_swap never fails, and returns False when a token has no
\* entry, when the aggregate accounts differ, when from_amount <= 0 and when
\* the destination's cash is less than the ideal destination amount.
C2_ValidateSwapFalse ==
    last.op = "validate_swap" =>
        /\ last.res \in {Return(TRUE), Return(FALSE)}
        /\ (last.args[1] \notin DOMAIN assets \/ last.args[2] \notin DOMAIN assets)
              => last.res = Return(FALSE)
        /\ (SwapOnPresent("validate_swap") /\ ~SameAccount) => last.res = Return(FALSE)
        /\ last.args[3] <= 0 => last.res = Return(FALSE)
        /\ (SwapOnPresent("validate_swap") /\ ~Failed(LastIdeal)
               /\ DLt(ToAsset.cash, LastIdeal.val))
              => last.res = Return(FALSE)

\* C2 witness: validate_swap has answered False for a positive amount on two
\* assets of one account because the destination's cash is below the ideal
\* amount.
C2_Witness ==
    /\ SwapOnPresent("validate_swap") /\ SameAccount /\ last.args[3] > 0
    /\ ~Failed(LastIdeal) /\ DLt(ToAsset.cash, LastIdeal.val)
    /\ last.res = Return(FALSE)

\* C3: in a variant pool, with both assets present in one account and a
\* positive amount, validate_swap fails with PriceNotSet when an asset has no
\* price and with ZeroPrice when a price is zero, rather than returning False.
C3_PriceErrorsPropagate ==
    (SwapOnPresent("validate_swap") /\ SameAccount /\ last.args[3] > 0
        /\ config.pool_type = "variant")
    => /\ (FromAsset.price_wad = None \/ ToAsset.price_wad = None)
             => last.res = Raise("PriceNotSet")
       /\ (FromAsset.price_wad # None /\ ToAsset.price_wad # None
             /\ (FromAsset.price_wad[1] = DZero \/ ToAsset.price_wad[1] = DZero))
             => last.res = Raise("ZeroPrice")

\* C4: when both assets are present and their aggregate accounts differ,
\* quote_swap fails with AggregateAccountMismatch, whatever the amount, the
\* balances, the prices and the pool type.
C4_AccountGate ==
    (SwapOnPresent("quote_swap") /\ ~SameAccount)
    => last.res = Raise("AggregateAccountMismatch")

\* C4 witness: a quote refused on two present assets of different accounts,
\* for an amount the destination could otherwise pay.
C4_Witness ==
    /\ SwapOnPresent("quote_swap") /\ ~SameAccount
    /\ last.args[3] > 0
    /\ ~DLt(ToAsset.cash, ToWad(last.args[3], FromAsset.underlying_token_decimals))
    /\ last.res = Raise("AggregateAccountMismatch")

\* C5: when both assets are present in one account and the ideal amount is
\* computable, quote_swap fails with InsufficientCash if the destination's
\* cash is below the ideal amount, before any solvency score is computed.
C5_InsufficientCashFirst ==
    (SwapOnPresent("quote_swap") /\ SameAccount /\ ~Failed(LastIdeal)
        /\ DLt(ToAsset.cash, LastIdeal.val))
    => last.res = Raise("InsufficientCash")

\* C5 witness: InsufficientCash reported for a swap whose solvency scores
\* could not be computed (an asset has no liability, or the source no cash).
C5_Witness ==
    /\ SwapOnPresent("quote_swap") /\ SameAccount /\ ~Failed(LastIdeal)
    /\ DLt(ToAsset.cash, LastIdeal.val)
    /\ (ToAsset.liability = DZero \/ FromAsset.liability = DZero
          \/ FromAsset.cash = DZero)
    /\ last.res = Raise("InsufficientCash")

\* The asset map a with the price of token t set to p.
WithPrice(a, t, p) == [a EXCEPT ![t].price_wad = Some(DecOfInt(p))]

\* C6: after update_asset_price(t, p) succeeds, the very next quote_swap that
\* involves t in a variant pool is the quote computed with price p for t,
\* whatever calls came earlier.
C6_PriceFreshness ==
    [][(/\ last.op = "update_asset_price" /\ ~Failed(last.res)
        /\ last'.op = "quote_swap"
        /\ config.pool_type = "variant"
        /\ last.args[1] \in {last'.args[1], last'.args[2]})
       => last'.res = QuoteSwap(WithPrice(assets, last.args[1], last.args[2]), config,
                                last'.args[1], last'.args[2], last'.args[3])]_vars

\* C6 witness: a quote returned in a variant pool for a token whose price is
\* one that only update_asset_price sets (2.0), and the quote is not the one
\* the price the token was synced with (1.0) gives.
C6_Witness ==
    /\ SwapOnPresent("quote_swap") /\ config.pool_type = "variant"
    /\ last.args[3] > 0
    /\ ~Failed(last.res)
    /\ \E t \in {last.args[1], last.args[2]} :
          /\ assets[t].price_wad = Some(DecOfInt(2 * WadInt))
          /\ last.res # QuoteSwap(WithPrice(assets, t, WadInt), config,
                                  last.args[1], last.args[2], last.args[3])

\* An entry without its price field.
SansPrice(entry) == [entry EXCEPT !.price_wad = None]

\* C7: update_asset_price changes only the price field of an existing entry
\* that carries a price; on a token with no entry it fails with AssetNotFound
\* and changes nothing; it never gives a price to an entry stored without one.
C7_PriceUpdateFrame ==
    [][last'.op = "update_asset_price" =>
        LET t == last'.args[1] IN
        IF t \notin DOMAIN assets
        THEN /\ last'.res = Raise("AssetNotFound")
             /\ UNCHANGED <<assets, asset_addresses, config>>
        ELSE /\ DOMAIN assets' = DOMAIN assets
             /\ \A u \in DOMAIN assets \ {t} : assets'[u] = assets[u]
             /\ SansPrice(assets'[t]) = SansPrice(assets[t])
             /\ UNCHANGED <<asset_addresses, config>>
             /\ assets[t].price_wad = None => assets'[t].price_wad = None]_vars

\* C8: update_asset_state overwrites exactly one entry: afterwards the entry
\* holds the supplied cash and liability (through _to_wad with the supplied
\* decimals unless values_in_wad), decimals, aggregate account and price (no
\* price when none is supplied), and every other entry is unchanged.
C8_FullOverwrite ==
    [][last'.op = "update_asset_state" =>
        LET t == last'.args[1]
            s == last'.args[3]
        IN /\ DOMAIN assets' = DOMAIN assets \cup {t}
           /\ assets'[t] =
                [token_address |-> t,
                 cash |-> IF s.in_wad THEN DecOfInt(s.cash) ELSE ToWad(s.cash, s.decimals),
                 liability |-> IF s.in_wad THEN DecOfInt(s.liability)
                               ELSE ToWad(s.liability, s.decimals),
                 underlying_token_decimals |-> s.decimals,
                 aggregate_account |-> s.account,
                 price_wad |-> IF s.price = None THEN None
                               ELSE Some(DecOfInt(s.price[1]))]
           /\ \A u \in DOMAIN assets \ {t} : assets'[u] = assets[u]]_vars

\* C8 witness: an entry written from native units with no price (its stored
\* cash is the converted value, not the argument), beside another token's
\* entry that carries a price.
C8_Witness ==
    /\ last.op = "update_asset_state"
    /\ ~last.args[3].in_wad /\ last.args[3].price = None
    /\ assets[last.args[1]].cash = ToWad(last.args[3].cash, last.args[3].decimals)
    /\ assets[last.args[1]].cash # DecOfInt(last.args[3].cash)
    /\ assets[last.args[1]].price_wad = None
    /\ \E u \in DOMAIN assets \ {last.args[1]} : assets[u].price_wad # None

\* C9: quote_swap, validate_swap and get_asset_state leave the asset map and
\* the pool configuration as they were, whether they return or fail; only
\* update_asset_state and update_asset_price change them.
C9_ReadsAreReadOnly ==
    [][/\ last'.op \in {"quote_swap", "validate_swap", "get_asset_state"}
          => UNCHANGED <<assets, asset_addresses, config>>
       /\ <<assets, asset_addresses, config>>' # <<assets, asset_addresses, config>>
          => last'.op \in {"update_asset_state", "update_asset_price"}]_vars

\* C9 witness: each of the three reads has acted on a pool that holds both
\* tokens: here a quote that returned.
C9_Witness ==
    /\ DOMAIN assets = Tokens
    /\ last.op = "quote_swap" /\ ~Failed(last.res)
    /\ last.res.val.to_amount.m > 0

\* The values of an entry that a quote uses in this pool.
UsedValues(entry) ==
    <<entry.cash, entry.liability,
      IF config.pool_type = "variant" THEN entry.price_wad ELSE None>>

\* C10: every quote that quote_swap returns beside state-sync writes used,
\* for both assets, the cash, liability and price of one pool state that
\* existed during the call.
C10_SingleSnapshot ==
    (inflight.pc = "done" /\ ~Failed(inflight.res)) =>
        \E snapshot \in inflight.seen :
            /\ {inflight.from_token, inflight.to_token} \subseteq DOMAIN snapshot
            /\ UsedValues(snapshot[inflight.from_token])
                 = UsedValues(inflight.from_asset[1])
            /\ UsedValues(snapshot[inflight.to_token])
                 = UsedValues(inflight.to_asset[1])

\* The from-amount of the last swap call in WAD.
LastAmountWad == ToWad(last.args[3], FromAsset.underlying_token_decimals)

\* The asset map a with no price on any entry.
WithoutPrices(a) == [t \in DOMAIN a |-> [a[t] EXCEPT !.price_wad = None]]

\* C11: the ideal destination amount is the from-amount in WAD in a stable
\* pool, where the quote does not depend on any price; in a variant pool it
\* is from_amount_wad * from_price / to_price, PriceNotSet when either asset
\* has no price and ZeroPrice when either price is 0, the quote failing with
\* the same error, so that no variant quote is returned for a missing or
\* zero price.
C11_IdealByPoolType ==
    (SwapOnPresent("quote_swap") /\ SameAccount) =>
        LET ideal == IdealToAmount(config, FromAsset, ToAsset, LastAmountWad) IN
        IF config.pool_type = "stable"
        THEN /\ ideal = Return(LastAmountWad)
             /\ last.res = QuoteSwap(WithoutPrices(assets), config,
                                     last.args[1], last.args[2], last.args[3])
        ELSE /\ ideal =
                  IF FromAsset.price_wad = None \/ ToAsset.price_wad = None
                  THEN Raise("PriceNotSet")
                  ELSE IF FromAsset.price_wad[1] = DZero \/ ToAsset.price_wad[1] = DZero
                  THEN Raise("ZeroPrice")
                  ELSE Return(DDiv(DMul(LastAmountWad, FromAsset.price_wad[1]),
                                   ToAsset.price_wad[1]))
             /\ Failed(ideal) => last.res = ideal
             /\ ~Failed(last.res) =>
                    /\ FromAsset.price_wad \notin {None, Some(DZero)}
                    /\ ToAsset.price_wad \notin {None, Some(DZero)}

\* C11 witness: a variant quote returned for a positive amount between two
\* assets of different prices, whose ideal amount is not the from-amount.
C11_Witness ==
    /\ SwapOnPresent("quote_swap") /\ SameAccount
    /\ config.pool_type = "variant"
    /\ last.args[3] > 0 /\ ~Failed(last.res)
    /\ FromAsset.price_wad # ToAsset.price_wad
    /\ IdealToAmount(config, FromAsset, ToAsset, LastAmountWad) # Return(LastAmountWad)

\* C12: _from_wad(_to_wad(x, d), d) is x when the scaling loses no digit
\* (d at most the canonical precision, or x a multiple of the divisor);
\* otherwise _to_wad is the integer quotient truncated toward zero and the
\* round trip is x rounded down to a multiple of the divisor.
C12_RoundTrip ==
    last.op = "_from_wad" =>
        LET x == last.native
            d == last.args[2]
            divisor == IF d > WadDecimals THEN Pow10(d - WadDecimals) ELSE 1
        IN IF x % divisor = 0
           THEN last.res = Return(DecOfInt(x))
           ELSE /\ last.args[1] = DecOfInt(x \div divisor)
                /\ last.res = Return(DecOfInt((x \div divisor) * divisor))

\* C13: every coverage-ratio computation over an asset whose liability is 0
\* fails with ZeroLiability, _solvency_score for every cash change in either
\* direction, and quote_swap returns no quote when the source or the
\* destination has liability 0: it fails, and with ZeroLiability when it is
\* the source that has none and the ideal amount is computed and covered by
\* the destination's cash.
C13_ZeroLiabilityGuard ==
    /\ \A t \in DOMAIN assets :
          assets[t].liability = DZero =>
              /\ AssetCoverageRatio(assets[t]) = Raise("ZeroLiability")
              /\ CoverageRatio(assets[t].cash, assets[t].liability) = Raise("ZeroLiability")
              /\ \A change \in AmountInputs, add_cash \in BOOLEAN :
                    SolvencyScore(config.r_threshold, assets[t].cash, assets[t].liability,
                                  DecOfInt(change), add_cash) = Raise("ZeroLiability")
    /\ (SwapOnPresent("quote_swap")
          /\ (FromAsset.liability = DZero \/ ToAsset.liability = DZero)) =>
              /\ Failed(last.res)
              /\ (SameAccount /\ FromAsset.liability = DZero /\ ~Failed(LastIdeal)
                    /\ ~DLt(ToAsset.cash, LastIdeal.val))
                    => last.res = Raise("ZeroLiability")

\* C13 witness: a quote for a positive amount that the destination's cash
\* covers has failed with ZeroLiability on a destination without liability.
C13_Witness ==
    /\ SwapOnPresent("quote_swap") /\ SameAccount
    /\ last.args[3] > 0
    /\ ToAsset.liability = DZero /\ FromAsset.liability # DZero
    /\ ~Failed(LastIdeal) /\ ~DLt(ToAsset.cash, LastIdeal.val)
    /\ last.res = Raise("ZeroLiability")

\* A WAD value on the scale whose unit is 1.0.
OnUnitScale(x_wad) == DDiv(x_wad, WAD)

\* The piecewise reference on the scale whose unit is 1.0, for a threshold
\* in (0, 1) and r > 0.
ReferenceIntegral(r_thres, r) ==
    IF DLe(r, r_thres)
    THEN DSub(DAdd(DDiv(DSub(DecOfInt(1), r_thres), DecOfInt(5)), r_thres), r)
    ELSE IF DLt(r, DecOfInt(1))
    THEN DDiv(DPow(DSub(DecOfInt(1), r), 5),
              DMul(DecOfInt(5), DPow(DSub(DecOfInt(1), r_thres), 4)))
    ELSE DZero

\* C14: for a threshold in (0, 1) and r > 0 the solvency-curve integral is
\* the piecewise reference on one scale: (1 - rThreshold)/5 +
\* (rThreshold - r) up to the threshold, (1 - r)^5 / (5 (1 - rThreshold)^4)
\* between the threshold and 1, and 0 from 1 on.  At r = rThreshold the
\* term (rThreshold - r) is 0 on any scale; the claim is stated here for the
\* other ratios.
C14_IntegralPiecewise ==
    (last.op = "_solvency_curve_integral" /\ last.args[2] # DZero
       /\ last.args[2] # last.args[1]) =>
        last.res = Return(ReferenceIntegral(OnUnitScale(last.args[1]),
                                            OnUnitScale(last.args[2])))

\* The solvency scores of the last swap call.
LastSolvencyFrom ==
    SolvencyScore(config.r_threshold, FromAsset.cash, FromAsset.liability,
                  LastAmountWad, TRUE)

LastSolvencyTo ==
    SolvencyScore(config.r_threshold, ToAsset.cash, ToAsset.liability,
                  LastIdeal.val, FALSE)

\* gross = ideal * (1 + solvencyFrom - solvencyTo) for the last swap call.
LastGross ==
    DMul(LastIdeal.val,
         DSub(DAdd(DecOfInt(1), LastSolvencyFrom.val), LastSolvencyTo.val))

\* haircut = gross * haircutRate, the rate on the scale whose unit is 1.0.
LastHaircut == DMul(LastGross, OnUnitScale(config.haircut_rate))

\* The integer n is at most the Decimal a, compared exactly.
IntAtMost(n, a) ==
    IF a.e >= 0 THEN n <= a.m * Pow10(a.e) ELSE n * Pow10(-a.e) <= a.m

\* The Python int that int(Decimal) returned.
IntOf(a) == a.m * Pow10(a.e)

\* C15: a quote returned for a positive amount is the pair (net, haircut),
\* with gross = ideal * (1 + solvencyFrom - solvencyTo), haircut = gross *
\* haircutRate and net = gross - haircut, each scaled to the destination's
\* decimals and truncated toward zero; and to_amount + haircut is at most
\* gross in the destination's decimals.
C15_QuotePipeline ==
    (SwapOnPresent("quote_swap") /\ last.args[3] > 0 /\ ~Failed(last.res)) =>
        /\ last.res.val.haircut
             = DInt(FromWad(LastHaircut, ToAsset.underlying_token_decimals))
        /\ last.res.val.to_amount
             = DInt(FromWad(DSub(LastGross, LastHaircut),
                            ToAsset.underlying_token_decimals))
        /\ IntAtMost(IntOf(last.res.val.to_amount) + IntOf(last.res.val.haircut),
                     FromWad(LastGross, ToAsset.underlying_token_decimals))

\* C16: when validate_swap returned True, quote_swap with the same arguments
\* on the same pool state returns a quote and does not fail.
C16_ValidateAgreesWithQuote ==
    (last.op = "validate_swap" /\ last.res = Return(TRUE)) =>
        ~Failed(QuoteSwap(assets, config, last.args[1], last.args[2],
                          last.args[3]))

====
